---- MODULE Spec2Model ----
(***************************************************************************)
(* Model of backend/core/models.py: the ServiceRequest record behaviours   *)
(* (identifier generation in save, duplicate), the relational constraints  *)
(* (unique, one-to-one, cascade delete, field validators) and the OTPToken *)
(* expiry check.                                                           *)
(*                                                                         *)
(* Strings are sequences of one-character strings, so that formatting an   *)
(* identifier, the startswith filter and reading a suffix back are         *)
(* computed and not assumed.  Amounts are in cents, the clock of the       *)
(* tokens in seconds, date_created is kept as its year.                    *)
(*                                                                         *)
(* What the framework does with the declarations is modelled as Django     *)
(* documents it: unique=True, OneToOneField and ForeignKey are constraints *)
(* of the database (IntegrityError on save), on_delete=CASCADE deletes the *)
(* referring rows with the row, validators run in full_clean only.         *)
(***************************************************************************)
EXTENDS Integers, Sequences, FiniteSets, TLC

VARIABLES
    tables,          \* the database: for each model, the set of its rows
    next_pk,         \* for each model, the primary key its next row gets
    now_year,        \* timezone.now().year
    now,             \* timezone.now(), in seconds
    result,          \* the most recent call, the exception it raised and the
                     \* constraint the exception names
    pc,              \* concurrent callers of save(): where each one is
    held             \* concurrent callers of save(): the instance each holds

(***************************************************************************)
(* Bounds of the model.                                                    *)
(***************************************************************************)
MaxPk == 3           \* at most this many ServiceRequest rows are ever inserted
MaxYears == 1        \* the calendar year advances at most this many times
MaxRows == 5         \* with the other models: at most this many rows are ever
                     \* inserted, all tables together
MaxTokens == 1       \* at most this many OTP tokens are issued
MaxIssue == 1        \* a token is issued at second 0..MaxIssue
MaxLate == 2         \* the clock runs to MaxIssue + 10 minutes + MaxLate seconds

FirstYear == 2025

(***************************************************************************)
(* Text helpers: what the f-strings and startswith compute.                *)
(***************************************************************************)
DigitChars == <<"0", "1", "2", "3", "4", "5", "6", "7", "8", "9">>

RECURSIVE str(_)
str(n) == IF n < 10 THEN <<DigitChars[n + 1]>>
          ELSE str(n \div 10) \o <<DigitChars[(n % 10) + 1]>>

RECURSIVE zfill(_, _)
zfill(s, width) == IF Len(s) >= width THEN s ELSE zfill(<<"0">> \o s, width)

\* f"{count:05d}"
format_05d(count) == zfill(str(count), 5)

\* f"RQ-{now.year}-"
prefix(year) == <<"R", "Q", "-">> \o str(year) \o <<"-">>

\* request_id__startswith=prefix
startswith(s, p) == Len(s) >= Len(p) /\ SubSeq(s, 1, Len(p)) = p

DigitValue(c) == CHOOSE d \in 0..9 : DigitChars[d + 1] = c

RECURSIVE int(_)
int(s) == IF s = <<>> THEN 0
          ELSE 10 * int(SubSeq(s, 1, Len(s) - 1)) + DigitValue(s[Len(s)])

\* the numeric suffix of an identifier RQ-<year>-<suffix>
Suffix(request_id, year) ==
    int(SubSeq(request_id, Len(prefix(year)) + 1, Len(request_id)))

(***************************************************************************)
(* The schema: models, foreign keys, unique fields, validators.            *)
(***************************************************************************)
\* the pk of an instance that has not been inserted (None)
NULL == 0

Models == {"ServiceRequest", "PINPreference", "RequestView", "Shortlist",
           "Match", "Message", "FinancialClaim", "ClaimItem", "Receipt",
           "Dispute", "OTPToken"}

\* User rows: accounts that exist throughout (alice and bob are PINs, carol
\* and erin corporate volunteers, dave a CSR representative).
PINs == {"alice", "bob"}
CVs == {"carol", "erin"}
CSRs == {"dave"}
Users == PINs \cup CVs \cup CSRs

FK(model, field, to, one_to_one) ==
    [model |-> model, field |-> field, to |-> to, one_to_one |-> one_to_one,
     on_delete |-> "CASCADE"]

\* every ForeignKey and OneToOneField of the file
ForeignKeys ==
    { FK("PINPreference", "user", "User", TRUE),
      FK("ServiceRequest", "pin", "User", FALSE),
      FK("RequestView", "request", "ServiceRequest", FALSE),
      FK("RequestView", "viewer", "User", FALSE),
      FK("Shortlist", "request", "ServiceRequest", FALSE),
      FK("Shortlist", "csr", "User", FALSE),
      FK("Match", "request", "ServiceRequest", TRUE),
      FK("Match", "cv", "User", FALSE),
      FK("Message", "request", "ServiceRequest", FALSE),
      FK("Message", "sender", "User", FALSE),
      FK("FinancialClaim", "request", "ServiceRequest", FALSE),
      FK("FinancialClaim", "cv", "User", FALSE),
      FK("ClaimItem", "claim", "FinancialClaim", FALSE),
      FK("Receipt", "item", "ClaimItem", FALSE),
      FK("Dispute", "request", "ServiceRequest", FALSE),
      FK("Dispute", "pin", "User", FALSE),
      FK("OTPToken", "user", "User", FALSE) }

\* A faulty schema, to check that C2 rests on unique=True: request_id
\* declared without it.
UniqueFieldsWithoutRequestId ==
    {[model |-> f.model, field |-> f.field] :
         f \in {g \in ForeignKeys : g.one_to_one}}

\* A faulty schema, to check that C5 rests on the one-to-one field:
\* Match.request declared as a plain ForeignKey.
UniqueFieldsWithoutMatch ==
    {[model |-> "ServiceRequest", field |-> "request_id"]}
        \cup {[model |-> f.model, field |-> f.field] :
                  f \in {g \in ForeignKeys :
                             g.one_to_one /\ g.model # "Match"}}

\* the fields the database keeps unique: unique=True and the one-to-one fields
UniqueFields ==
    {[model |-> "ServiceRequest", field |-> "request_id"]}
        \cup {[model |-> f.model, field |-> f.field] :
                  f \in {g \in ForeignKeys : g.one_to_one}}

\* validators=[MinValueValidator(0)]; amounts are in cents
Validators ==
    {[model |-> "ClaimItem", field |-> "total_amount", min_value |-> 0]}

Exists(db, model, pk) ==
    IF model = "User" THEN pk \in Users ELSE \E r \in db[model] : r.pk = pk

\* a unique field of inst that another row already holds
UniqueViolation(db, model, inst) ==
    \E u \in UniqueFields :
        /\ u.model = model
        /\ \E r \in db[model] : r.pk # inst.pk /\ r[u.field] = inst[u.field]

\* a foreign key of inst to a row that does not exist
ForeignKeyViolation(db, model, inst) ==
    \E f \in ForeignKeys : f.model = model /\ ~Exists(db, f.to, inst[f.field])

\* the constraint on which the database refuses to write inst, "" if none
\* (the unique index is checked when the row is written, the foreign keys
\* after it)
FailedConstraint(db, model, inst) ==
    IF UniqueViolation(db, model, inst) THEN "unique"
    ELSE IF ForeignKeyViolation(db, model, inst) THEN "foreign_key"
    ELSE ""

\* Model.save: INSERT for an instance without pk, UPDATE otherwise; the
\* database afterwards, the exception raised, and the pk of the row
ModelSave(db, model, inst, fresh_pk) ==
    IF FailedConstraint(db, model, inst) # ""
    THEN [db |-> db, exc |-> "IntegrityError",
          constraint |-> FailedConstraint(db, model, inst),
          inserted |-> FALSE, pk |-> inst.pk]
    ELSE IF inst.pk = NULL
    THEN [db |-> [db EXCEPT ![model] = @ \cup {[inst EXCEPT !.pk = fresh_pk]}],
          exc |-> "", constraint |-> "", inserted |-> TRUE, pk |-> fresh_pk]
    ELSE [db |-> [db EXCEPT ![model] =
                     {r \in @ : r.pk # inst.pk} \cup {inst}],
          exc |-> "", constraint |-> "", inserted |-> FALSE, pk |-> inst.pk]

\* Model.full_clean runs the validators of the fields and raises
\* ValidationError when one fails.  Model.save and objects.create do not
\* call full_clean: a validator is no database constraint.
FullCleanError(model, inst) ==
    \E v \in Validators :
        v.model = model /\ inst[v.field] < v.min_value

\* A faulty collector, to check that C4 rests on the cascade being
\* followed to the end: it takes the rows that refer to doomed, and not
\* the rows that refer to those.
CollectDirect(db, doomed) ==
    doomed \cup UNION {
        { <<f.model, r.pk>> :
              r \in {x \in db[f.model] : <<f.to, x[f.field]>> \in doomed} } :
        f \in {g \in ForeignKeys : g.on_delete = "CASCADE"} }

\* the rows a delete takes with it: those of doomed (pairs <<model, pk>>)
\* and, through every on_delete=CASCADE key, the rows that refer to them
RECURSIVE Collect(_, _)
Collect(db, doomed) ==
    LET more == UNION {
                    { <<f.model, r.pk>> :
                          r \in {x \in db[f.model] :
                                     <<f.to, x[f.field]>> \in doomed} } :
                    f \in {g \in ForeignKeys : g.on_delete = "CASCADE"} }
    IN  IF more \subseteq doomed THEN doomed ELSE Collect(db, doomed \cup more)

\* Model.delete
DeleteFrom(db, model, pk) ==
    LET doomed == Collect(db, {<<model, pk>>})
    IN  [m \in Models |-> {r \in db[m] : <<m, r.pk>> \notin doomed}]

(***************************************************************************)
(* ServiceRequest                                                          *)
(***************************************************************************)
STATUS_PENDING == "PENDING"
STATUS_ACTIVE == "ACTIVE"
STATUS_COMPLETED == "COMPLETED"
STATUS_CHOICES == {STATUS_PENDING, STATUS_ACTIVE, STATUS_COMPLETED}

Dates == {"d1", "d2"}

\* The keyword arguments a caller passes to ServiceRequest.objects.create,
\* without the appointment date.
AliceInput ==
    [pin |-> "alice", service_type |-> "HEALTHCARE",
     pickup_location |-> "home", service_location |-> "clinic",
     description |-> ""]
BobInput ==
    [pin |-> "bob", service_type |-> "ESCORT",
     pickup_location |-> "flat", service_location |-> "hall",
     description |-> "wheelchair"]
CreateInputs == {AliceInput, BobInput}

\* A new, unsaved instance: the field defaults of the class.
NewServiceRequest(kw, appointment_date) ==
    [pk |-> NULL,
     request_id |-> <<>>,
     pin |-> kw.pin,
     service_type |-> kw.service_type,
     appointment_date |-> appointment_date,
     pickup_location |-> kw.pickup_location,
     service_location |-> kw.service_location,
     description |-> kw.description,
     status |-> STATUS_PENDING,
     date_created |-> NULL,
     views |-> 0,
     shortlists |-> 0]

\* A faulty count, to check that C1 rests on the prefix filter: it counts
\* the requests of every year.
NextCountAllYears(rows, year) == Cardinality(rows) + 1

\* ServiceRequest.objects.filter(request_id__startswith=prefix).count() + 1
NextCount(rows, year) ==
    Cardinality({r \in rows : startswith(r.request_id, prefix(year))}) + 1

\* the identifier save() computes for an instance without one
GenerateRequestId(rows, year) == prefix(year) \o format_05d(NextCount(rows, year))

\* A faulty save, to check that C9 rests on the test of request_id: it
\* generates an identifier on every save.
WithRequestIdAlways(self, rows, year) ==
    [self EXCEPT !.request_id = GenerateRequestId(rows, year)]

\* the first half of save(): if not self.request_id: ...
WithRequestId(self, rows, year) ==
    IF self.request_id = <<>>
    THEN [self EXCEPT !.request_id = GenerateRequestId(rows, year)]
    ELSE self

\* date_created = DateTimeField(auto_now_add=True): set when the row is
\* inserted (the model keeps its year)
AutoNowAdd(self, year) ==
    IF self.pk = NULL THEN [self EXCEPT !.date_created = year] ELSE self

Requests == tables["ServiceRequest"]

vars == <<tables, next_pk, now_year, now, result, pc, held>>

\* a call of Model.save (or objects.create) on inst, as one step
Write(model, inst, op) ==
    LET out == ModelSave(tables, model, inst, next_pk[model])
    IN  /\ tables' = out.db
        /\ next_pk' = IF out.inserted
                      THEN [next_pk EXCEPT ![model] = @ + 1]
                      ELSE next_pk
        /\ result' = [op |-> op, exc |-> out.exc,
                      constraint |-> out.constraint]
        /\ UNCHANGED <<now_year, now, pc, held>>

\* ServiceRequest.save
Save(self, op) ==
    Write("ServiceRequest",
          AutoNowAdd(WithRequestId(self, Requests, now_year), now_year), op)

\* ServiceRequest.objects.create(**kw, appointment_date=d)
Create(kw, d) == Save(NewServiceRequest(kw, d), "create")

\* A faulty duplicate, to check that C7 rests on the copy taking the
\* default status: it copies the status too.
DuplicateWithStatus(self, new_appointment_dt) ==
    Save([self EXCEPT !.pk = NULL, !.request_id = <<>>,
                      !.appointment_date = new_appointment_dt,
                      !.views = 0, !.shortlists = 0],
         "duplicate")

\* ServiceRequest.duplicate
Duplicate(self, new_appointment_dt) ==
    Save(NewServiceRequest(
             [pin |-> self.pin,
              service_type |-> self.service_type,
              pickup_location |-> self.pickup_location,
              service_location |-> self.service_location,
              description |-> self.description],
             new_appointment_dt),
         "duplicate")

\* A caller loads a row, sets its status and saves it.
SetStatus(self, status) == Save([self EXCEPT !.status = status], "save")

\* A caller loads a row, sets its appointment date and saves it.
SetAppointment(self, d) == Save([self EXCEPT !.appointment_date = d], "save")

\* Model.delete on the row pk of model
Delete(model, pk) ==
    /\ Exists(tables, model, pk)
    /\ tables' = DeleteFrom(tables, model, pk)
    /\ result' = [op |-> "delete", exc |-> "", constraint |-> ""]
    /\ UNCHANGED <<next_pk, now_year, now, pc, held>>

\* the calendar year changes
NewYear ==
    /\ now_year' = now_year + 1
    /\ result' = [op |-> "tick", exc |-> "", constraint |-> ""]
    /\ UNCHANGED <<tables, next_pk, now, pc, held>>

(***************************************************************************)
(* save() called by two callers at once: the count query (line 86) and     *)
(* the INSERT (line 88) are two statements, with nothing held in between.  *)
(***************************************************************************)
Procs == {"p1", "p2"}

\* lines 82-87: the caller builds an instance and computes its request_id
CountStep(p, kw, d) ==
    /\ pc[p] # "insert"
    /\ held' = [held EXCEPT ![p] =
                   WithRequestId(NewServiceRequest(kw, d), Requests, now_year)]
    /\ pc' = [pc EXCEPT ![p] = "insert"]
    /\ UNCHANGED <<tables, next_pk, now_year, now, result>>

\* line 88: super().save()
InsertStep(p) ==
    /\ pc[p] = "insert"
    /\ LET out == ModelSave(tables, "ServiceRequest",
                            AutoNowAdd(held[p], now_year),
                            next_pk["ServiceRequest"])
       IN  /\ tables' = out.db
           /\ next_pk' = IF out.inserted
                         THEN [next_pk EXCEPT !["ServiceRequest"] = @ + 1]
                         ELSE next_pk
           /\ pc' = [pc EXCEPT ![p] =
                        IF out.exc = "" THEN "saved" ELSE out.exc]
           /\ held' = [held EXCEPT ![p].pk = out.pk]
    /\ UNCHANGED <<now_year, now, result>>

(***************************************************************************)
(* The other models: objects.create, full_clean.                           *)
(***************************************************************************)
\* Model.objects.create(**fields): the instance is built and saved
CreateRow(model, fields) ==
    Write(model, [pk |-> NULL] @@ fields, "create")

\* Model(**fields).full_clean()
FullClean(model, fields) ==
    /\ result' = [op |-> "full_clean",
                  exc |-> IF FullCleanError(model, fields)
                          THEN "ValidationError" ELSE "",
                  constraint |-> IF FullCleanError(model, fields)
                                 THEN "min_value" ELSE ""]
    /\ UNCHANGED <<tables, next_pk, now_year, now, pc, held>>

\* amounts a caller may give, in cents: -0.01, 0.00, 0.01
Amounts == {0 - 1, 0, 1}

(***************************************************************************)
(* OTPToken                                                                *)
(***************************************************************************)
\* timezone.timedelta(minutes=m), in seconds
timedelta(minutes) == minutes * 60

\* A faulty check, to check that C6 rests on the strict comparison: it
\* expires a token at ten minutes sharp.
is_expired_at_ten(self, t) == t >= self.created_at + timedelta(10)

\* OTPToken.is_expired
is_expired(self, t) == t > self.created_at + timedelta(10)

\* OTPToken.objects.create(user=u, code=...): created_at is auto_now_add
CreateToken(user) ==
    /\ Write("OTPToken",
             [pk |-> NULL, user |-> user, created_at |-> now,
              is_used |-> FALSE], "create")

\* a caller consumes the token: is_used = True; save()
MarkUsed(self) == Write("OTPToken", [self EXCEPT !.is_used = TRUE], "save")

\* a caller asks token.is_expired()
CallIsExpired(self) ==
    /\ result' = [op |-> "is_expired", exc |-> "", constraint |-> "",
                  pk |-> self.pk, ret |-> is_expired(self, now)]
    /\ UNCHANGED <<tables, next_pk, now_year, now, pc, held>>

\* a second passes
Tick ==
    /\ now' = now + 1
    /\ result' = [op |-> "tick", exc |-> "", constraint |-> ""]
    /\ UNCHANGED <<tables, next_pk, now_year, pc, held>>

(***************************************************************************)
(* Specifications.  All start from the empty database.                     *)
(***************************************************************************)
Init ==
    /\ tables = [m \in Models |-> {}]
    /\ next_pk = [m \in Models |-> 1]
    /\ now_year = FirstYear
    /\ now = 0
    /\ result = [op |-> "init", exc |-> "", constraint |-> ""]
    /\ pc = [p \in Procs |-> "idle"]
    /\ held = [p \in Procs |-> NewServiceRequest(AliceInput, "d1")]

\* the rows ever inserted, all tables together
AllRows ==
    next_pk["ServiceRequest"] + next_pk["PINPreference"]
        + next_pk["RequestView"] + next_pk["Shortlist"] + next_pk["Match"]
        + next_pk["Message"] + next_pk["FinancialClaim"]
        + next_pk["ClaimItem"] + next_pk["Receipt"] + next_pk["Dispute"] - 10

\* the primary keys a caller may name for model: those issued so far, of
\* rows stored or deleted since
Pks(model) == 1..(next_pk[model] - 1)

\* Sequential use of ServiceRequest: create, duplicate, save, delete.
Lifecycle(inputs, dates) ==
    \/ \E kw \in inputs, d \in dates :
           next_pk["ServiceRequest"] <= MaxPk /\ Create(kw, d)
    \/ \E r \in Requests, d \in dates :
           next_pk["ServiceRequest"] <= MaxPk /\ Duplicate(r, d)
    \/ \E r \in Requests, s \in STATUS_CHOICES : SetStatus(r, s)
    \/ \E r \in Requests, d \in dates : SetAppointment(r, d)
    \/ \E r \in Requests : Delete("ServiceRequest", r.pk)
    \/ now_year < FirstYear + MaxYears /\ NewYear

\* the requests of one person in need, all for one date
Next == Lifecycle({AliceInput}, {"d1"})

Spec == Init /\ [][Next]_vars

\* Two callers of save() at once.
NextConcurrent ==
    \/ \E p \in Procs, kw \in CreateInputs, d \in Dates :
           next_pk["ServiceRequest"] <= MaxPk /\ CountStep(p, kw, d)
    \/ \E p \in Procs : InsertStep(p)

SpecConcurrent == Init /\ [][NextConcurrent]_vars

\* the requests of two persons in need, for two dates
NextWide == Lifecycle(CreateInputs, Dates)

SpecWide == Init /\ [][NextWide]_vars

\* The tables that hang off a request, and deletes.
NextCascade ==
    \/ AllRows < MaxRows /\ Create(AliceInput, "d1")
    \/ \E r \in Pks("ServiceRequest") :
           /\ AllRows < MaxRows
           /\ CreateRow("RequestView", [request |-> r, viewer |-> "dave"])
    \/ \E r \in Pks("ServiceRequest") :
           /\ AllRows < MaxRows
           /\ CreateRow("Shortlist", [request |-> r, csr |-> "dave"])
    \/ \E r \in Pks("ServiceRequest") :
           /\ AllRows < MaxRows
           /\ CreateRow("Match", [request |-> r, cv |-> "carol",
                                  accepted |-> NULL])
    \/ \E r \in Pks("ServiceRequest") :
           /\ AllRows < MaxRows
           /\ CreateRow("Message", [request |-> r, sender |-> "alice"])
    \/ \E r \in Pks("ServiceRequest") :
           /\ AllRows < MaxRows
           /\ CreateRow("FinancialClaim",
                        [request |-> r, cv |-> "carol",
                         approved_by_pin |-> FALSE, approved_by_csr |-> FALSE])
    \/ \E c \in Pks("FinancialClaim") :
           /\ AllRows < MaxRows
           /\ CreateRow("ClaimItem", [claim |-> c, total_amount |-> 1])
    \/ \E i \in Pks("ClaimItem") :
           /\ AllRows < MaxRows
           /\ CreateRow("Receipt", [item |-> i])
    \/ \E r \in Pks("ServiceRequest") :
           /\ AllRows < MaxRows
           /\ CreateRow("Dispute", [request |-> r, pin |-> "alice"])
    \/ \E m \in {"ServiceRequest", "FinancialClaim", "ClaimItem"} :
           \E k \in Pks(m) : Delete(m, k)

SpecCascade == Init /\ [][NextCascade]_vars

\* The single-row constraints: one-to-one fields and validators.
NextConstraints ==
    \/ AllRows < MaxRows /\ Create(AliceInput, "d1")
    \/ \E r \in Pks("ServiceRequest"), u \in CVs :
           /\ AllRows < MaxRows
           /\ CreateRow("Match", [request |-> r, cv |-> u, accepted |-> NULL])
    \/ \E u \in PINs, g \in {"", "F"} :
           /\ AllRows < MaxRows
           /\ CreateRow("PINPreference",
                        [user |-> u, preferred_language |-> "",
                         preferred_volunteer_gender |-> g])
    \/ \E r \in Pks("ServiceRequest") :
           /\ AllRows < MaxRows
           /\ CreateRow("FinancialClaim",
                        [request |-> r, cv |-> "carol",
                         approved_by_pin |-> FALSE, approved_by_csr |-> FALSE])
    \/ \E c \in Pks("FinancialClaim"), a \in Amounts :
           /\ AllRows < MaxRows
           /\ CreateRow("ClaimItem", [claim |-> c, total_amount |-> a])
    \/ \E c \in Pks("FinancialClaim"), a \in Amounts :
           FullClean("ClaimItem", [claim |-> c, total_amount |-> a])

SpecConstraints == Init /\ [][NextConstraints]_vars

\* One-time tokens and the clock.
NextOTP ==
    \/ \E u \in PINs :
           /\ next_pk["OTPToken"] <= MaxTokens
           /\ now <= MaxIssue
           /\ CreateToken(u)
    \/ \E t \in tables["OTPToken"] : MarkUsed(t)
    \/ \E t \in tables["OTPToken"] : CallIsExpired(t)
    \/ now < MaxIssue + timedelta(10) + MaxLate /\ Tick

SpecOTP == Init /\ [][NextOTP]_vars

(***************************************************************************)
(* Properties.                                                             *)
(***************************************************************************)
\* every row ever inserted in ServiceRequest is still stored
NoDeletion == Cardinality(Requests) = next_pk["ServiceRequest"] - 1

\* the requests created in calendar year y
CreatedIn(y) == {r \in Requests : r.date_created = y}

\* r is the Rank(r)-th request created in its year (pks are issued in order)
Rank(r) == Cardinality({q \in CreatedIn(r.date_created) : q.pk <= r.pk})

\* C1: under sequential creation (no request has been deleted), creating
\* never fails, the identifiers are pairwise distinct, and the k-th request
\* created in year Y has the identifier RQ-Y-<k, 5 digits>: the first one
\* RQ-Y-00001, suffixes strictly increasing in creation order.
C1_SequentialIds ==
    NoDeletion =>
        /\ result.op \in {"create", "duplicate"} => result.exc = ""
        /\ \A r, q \in Requests : r.pk # q.pk => r.request_id # q.request_id
        /\ \A r \in Requests :
               /\ startswith(r.request_id, prefix(r.date_created))
               /\ Len(r.request_id) = Len(prefix(r.date_created)) + 5
               /\ Suffix(r.request_id, r.date_created) = Rank(r)
               /\ Rank(r) = 1 =>
                      SubSeq(r.request_id, Len(r.request_id) - 5,
                             Len(r.request_id))
                          = <<"-", "0", "0", "0", "0", "1">>
        /\ \A r, q \in Requests :
               r.date_created = q.date_created /\ r.pk < q.pk =>
                   Suffix(r.request_id, r.date_created)
                       < Suffix(q.request_id, q.date_created)

\* C1 witness: two requests created in the first year and one in the next,
\* none deleted.
C1_Witness ==
    /\ NoDeletion
    /\ Cardinality(CreatedIn(FirstYear)) = 2
    /\ Cardinality(CreatedIn(FirstYear + 1)) = 1

\* C2: two callers of save() can compute the same request_id; the database
\* then refuses the second write: no two stored rows share an identifier,
\* and a caller that got IntegrityError holds an identifier that a stored
\* row has.
C2_DuplicateRefused ==
    /\ \A r, q \in Requests : r.pk # q.pk => r.request_id # q.request_id
    /\ \A p \in Procs :
           pc[p] = "IntegrityError" =>
               \E r \in Requests : r.request_id = held[p].request_id

\* C2 witness: both callers computed the same identifier, one was saved and
\* the other refused.
C2_Witness ==
    \E p, q \in Procs :
        /\ pc[p] = "saved"
        /\ pc[q] = "IntegrityError"
        /\ held[q].request_id = held[p].request_id
        /\ \E r \in Requests : r.pk = held[p].pk

\* C3: every duplicate(r, d) adds exactly one request, with a different
\* identifier, r's pin, service type, locations and description, the date d,
\* status PENDING and counters 0, and leaves r as it is.
C3_Duplicate ==
    [][\A r \in Requests, d \in Dates :
           Duplicate(r, d) =>
               \E c \in Requests' :
                   /\ c \notin Requests
                   /\ Requests' = Requests \cup {c}
                   /\ c.request_id # r.request_id
                   /\ c.pin = r.pin
                   /\ c.service_type = r.service_type
                   /\ c.pickup_location = r.pickup_location
                   /\ c.service_location = r.service_location
                   /\ c.description = r.description
                   /\ c.appointment_date = d
                   /\ c.status = STATUS_PENDING
                   /\ c.views = 0
                   /\ c.shortlists = 0]_vars

\* the request that a row r of model m hangs off, NULL if none
RequestOf(db, m, r) ==
    IF m = "ServiceRequest" THEN r.pk
    ELSE IF m \in {"RequestView", "Shortlist", "Match", "Message",
                   "FinancialClaim", "Dispute"} THEN r.request
    ELSE IF m = "ClaimItem"
    THEN (CHOOSE c \in db["FinancialClaim"] : c.pk = r.claim).request
    ELSE IF m = "Receipt"
    THEN LET i == CHOOSE x \in db["ClaimItem"] : x.pk = r.item
         IN  (CHOOSE c \in db["FinancialClaim"] : c.pk = i.claim).request
    ELSE NULL

\* every foreign key of every stored row names a stored row
NoDanglingReference ==
    \A f \in ForeignKeys :
        \A r \in tables[f.model] : Exists(tables, f.to, r[f.field])

\* C4: no stored row refers to a row that is not stored, and deleting the
\* request k removes exactly the rows that hang off k, directly or through
\* a claim or an item; every other row stays as it is.
C4_CascadeDelete ==
    /\ []NoDanglingReference
    /\ [][\A k \in Pks("ServiceRequest") :
              Delete("ServiceRequest", k) =>
                  \A m \in Models :
                      tables'[m] =
                          {r \in tables[m] : RequestOf(tables, m, r) # k}]_vars

\* C4 witness: a request with a claim and an item of it has been deleted,
\* both are gone, and a row of another, stored request is still there.
C4_Witness ==
    /\ result.op = "delete"
    /\ ~NoDeletion
    /\ next_pk["ClaimItem"] > 1
    /\ tables["ClaimItem"] = {}
    /\ tables["FinancialClaim"] = {}
    /\ \E m \in Models \ {"ServiceRequest"} : tables[m] # {}

\* C5: at most one Match per request and one PINPreference per user;
\* creating a second one raises IntegrityError on the unique constraint and
\* leaves the database as it is.
C5_OneToOne ==
    /\ \A a, b \in tables["Match"] : a.request = b.request => a = b
    /\ \A a, b \in tables["PINPreference"] : a.user = b.user => a = b
    /\ \A a \in tables["Match"], u \in CVs :
           LET out == ModelSave(tables, "Match",
                                [pk |-> NULL, request |-> a.request,
                                 cv |-> u, accepted |-> NULL],
                                next_pk["Match"])
           IN  /\ out.exc = "IntegrityError"
               /\ out.constraint = "unique"
               /\ out.db = tables
    /\ \A a \in tables["PINPreference"], g \in {"", "F"} :
           LET out == ModelSave(tables, "PINPreference",
                                [pk |-> NULL, user |-> a.user,
                                 preferred_language |-> "",
                                 preferred_volunteer_gender |-> g],
                                next_pk["PINPreference"])
           IN  /\ out.exc = "IntegrityError"
               /\ out.constraint = "unique"
               /\ out.db = tables

\* C5 witness: with a Match stored and no PINPreference, a creation has just
\* been refused on a unique constraint: it was a second Match.
C5_Witness ==
    /\ result.op = "create"
    /\ result.exc = "IntegrityError"
    /\ result.constraint = "unique"
    /\ tables["Match"] # {}
    /\ tables["PINPreference"] = {}

\* C6: is_expired() is true exactly when now is later than created_at + 10
\* minutes: false at created_at, at +9:59 and at +10:00, true at +10:01; it
\* reads created_at only, not is_used; once true it stays true; and a call
\* returns this value and changes no row.
C6_Expiry ==
    /\ [](/\ \A t \in tables["OTPToken"] :
                 /\ is_expired(t, now) <=> (now - t.created_at > 600)
                 /\ ~is_expired(t, t.created_at)
                 /\ ~is_expired(t, t.created_at + 599)
                 /\ ~is_expired(t, t.created_at + 600)
                 /\ is_expired(t, t.created_at + 601)
                 /\ is_expired([t EXCEPT !.is_used = ~@], now)
                        = is_expired(t, now)
          /\ result.op = "is_expired" =>
                 \E t \in tables["OTPToken"] :
                     /\ t.pk = result.pk
                     /\ result.ret = (now - t.created_at > 600))
    /\ [][/\ \A t \in tables["OTPToken"], u \in tables'["OTPToken"] :
                 t.pk = u.pk /\ is_expired(t, now) => is_expired(u, now')
          /\ result'.op = "is_expired" => tables' = tables]_vars

\* C6 witness: a call of is_expired() on an unused token, one second after
\* its ten minutes, has returned true.
C6_Witness ==
    /\ result.op = "is_expired"
    /\ result.ret = TRUE
    /\ \E t \in tables["OTPToken"] :
           /\ t.pk = result.pk
           /\ ~t.is_used
           /\ now = t.created_at + 601

\* s -> t is no change or a step forward along PENDING -> ACTIVE -> COMPLETED
Forward(s, t) ==
    \/ s = t
    \/ s = STATUS_PENDING /\ t = STATUS_ACTIVE
    \/ s = STATUS_ACTIVE /\ t = STATUS_COMPLETED

RequestIds == {r.request_id : r \in Requests}

\* C9: a stored request keeps its request_id in every step, and a save of a
\* stored request (which has a request_id) generates no identifier: the
\* identifiers in use are the same before and after.
C9_RequestIdImmutable ==
    [][/\ \A r \in Requests, q \in Requests' :
              r.pk = q.pk => q.request_id = r.request_id
       /\ result'.op = "save" => RequestIds' = RequestIds /\ result'.exc = ""]_vars

\* C9 witness: the only request, created in the first year, has just been
\* saved with another status in a later year and still has that year's
\* identifier.
C9_Witness ==
    /\ result.op = "save"
    /\ now_year > FirstYear
    /\ \E r \in Requests :
           /\ Requests = {r}
           /\ r.date_created = FirstYear
           /\ r.status # STATUS_PENDING
           /\ startswith(r.request_id, prefix(FirstYear))

\* C10: after any creations, duplications and deletions, no creation has
\* failed and the identifier the next creation computes is one that no
\* stored request holds.
C10_NextIdentifierFree ==
    /\ result.op \in {"create", "duplicate"} => result.exc = ""
    /\ \A r \in Requests :
           r.request_id # GenerateRequestId(Requests, now_year)

\* C8: every stored ClaimItem has total_amount >= 0 (a negative amount is
\* refused and not stored).
C8_NoNegativeAmount ==
    \A i \in tables["ClaimItem"] : i.total_amount >= 0

====
